---- MODULE Spec2Model ----
(***************************************************************************)
(* Model of the HTML-to-JSON converter:                                    *)
(*   src/converter.py                       (first batch converter)        *)
(*   src/radreportconverter/converter.py    (batch converter)              *)
(*   src/radreportconverter/fastapi_converter.py  (request converter)      *)
(*                                                                         *)
(* Strings are sequences of tokens (a token is one whitespace character    *)
(* " " or a run of non-whitespace characters), so that str.strip(),        *)
(* str.replace() and str.title() are computed and not assumed.  A parsed   *)
(* document is the sequence of its elements in document order, each with   *)
(* its nesting depth; the descendants of an element are the elements that  *)
(* follow it while their depth stays greater than its own.                 *)
(***************************************************************************)
EXTENDS Integers, Sequences, FiniteSets, TLC

VARIABLES
    input,      \* the HTML text handed to the converter under study
    impl,       \* which convert_html_to_json ran: "root", "file", "request"
    legacy,     \* attribute matching rule of the installed BeautifulSoup
    outcome,    \* what the call produced: a Document or a raised exception
    dir,        \* batch driver: the directory listing
    driver,     \* batch driver: "root" or "radreport"
    bpc,        \* batch driver: position in convert_all_html_files
    idx,        \* batch driver: loop index into html_files
    successful_conversions,
    failed_conversions,
    written,    \* batch driver: output name -> Document written by json.dump
    attempted,  \* batch driver: html files the conversion loop has tried
    upload,     \* request handler: the uploaded file
    response    \* request handler: the HTTP response

vars == <<input, impl, legacy, outcome, dir, driver, bpc, idx,
          successful_conversions, failed_conversions, written, attempted,
          upload, response>>

-----------------------------------------------------------------------------
(* Bounds of the model *)

MaxBody == 3

MaxHead == 2

MaxFiles == 2

-----------------------------------------------------------------------------
(* Python values *)

\* Python's None.  Strings are sequences over Tokens, which excludes it.
None == <<"None">>

\* bool(v) for v a str or None
Truthy(v) == v # None /\ v # <<>>

IsSpace(tok) == tok = " "

RECURSIVE LStrip(_)
LStrip(s) == IF s # <<>> /\ IsSpace(Head(s)) THEN LStrip(Tail(s)) ELSE s

RECURSIVE RStrip(_)
RStrip(s) ==
    IF s # <<>> /\ IsSpace(s[Len(s)]) THEN RStrip(SubSeq(s, 1, Len(s) - 1)) ELSE s

\* str.strip()
Strip(s) == RStrip(LStrip(s))

\* str.replace(old, new) on tokens; new = <<>> deletes the token
Replace(s, old, new) ==
    LET Step(acc, k) == IF s[k] = old THEN acc \o new ELSE Append(acc, s[k])
        F[k \in 0..Len(s)] == IF k = 0 THEN <<>> ELSE Step(F[k - 1], k)
    IN F[Len(s)]

\* str.title() on one token
TitleTok(tok) ==
    CASE tok = "lung" -> "Lung"
      [] tok = "t1"   -> "T1"
      [] OTHER        -> tok

Title(s) == [k \in 1..Len(s) |-> TitleTok(s[k])]

\* str.endswith(suffix) for a one-token suffix
EndsWith(s, suffix) == s # <<>> /\ s[Len(s)] = suffix

\* f"Section {n}"
SectionN(n) == <<"Section", " ", ToString(n)>>

-----------------------------------------------------------------------------
(* The parsed tree and its queries (BeautifulSoup, html.parser) *)

HasAttr(node, a) == \E p \in node.attrs : p[1] = a

\* Tag.get(a, default)
Get(node, a, default) ==
    IF HasAttr(node, a) THEN (CHOOSE p \in node.attrs : p[1] = a)[2] ELSE default

\* the elements below element i; i = 0 is the soup itself
Descendants(doc, i) ==
    {j \in (i + 1)..Len(doc) :
        i = 0 \/ \A k \in (i + 1)..j : doc[k].depth > doc[i].depth}

\* attribute filter of find(): a string matches an equal attribute value; an
\* element without the attribute matches the empty string only under the
\* older matching rule ("None matches None, False, an empty string")
AttrMatches(node, a, val, old) ==
    IF HasAttr(node, a) THEN Get(node, a, None) = val ELSE old /\ val = <<>>

\* Tag.find_all(tag): matching descendants in document order
FindAll(doc, i, tag) ==
    SelectSeq([k \in 1..Len(doc) |-> k],
              LAMBDA j : j \in Descendants(doc, i) /\ doc[j].tag = tag)

\* Tag.find(tag): the first match, 0 for None
Find(doc, i, tag) ==
    LET all == FindAll(doc, i, tag) IN IF all = <<>> THEN 0 ELSE all[1]

\* Tag.find(tag, {a: val})
FindAttr(doc, i, tag, a, val, old) ==
    LET all == SelectSeq(FindAll(doc, i, tag),
                         LAMBDA j : AttrMatches(doc[j], a, val, old))
    IN IF all = <<>> THEN 0 ELSE all[1]

\* Tag.text: the strings of the element and of its descendants, concatenated
TextOf(doc, i) ==
    LET F[k \in (i - 1)..Len(doc)] ==
            IF k = i - 1 THEN <<>>
            ELSE IF k = i \/ k \in Descendants(doc, i) THEN F[k - 1] \o doc[k].text
            ELSE F[k - 1]
    IN F[Len(doc)]

-----------------------------------------------------------------------------
(* convert_html_to_json: the extraction passes *)

\* meta_fields, in insertion order
MetaFields ==
    << <<"identifier", <<"dcterms.identifier">> >>,
       <<"language",   <<"dcterms.language">> >>,
       <<"publisher",  <<"dcterms.publisher">> >>,
       <<"date",       <<"dcterms.date">> >>,
       <<"creator",    <<"dcterms.creator">> >> >>

\* mutant of MetaEntry: the else branch that stores None is missing
MetaEntryWithoutElse(doc, key, meta_name, old) ==
    LET meta_tag == FindAttr(doc, 0, "meta", "name", meta_name, old)
    IN IF meta_tag # 0 /\ Truthy(Get(doc[meta_tag], "content", None))
       THEN {<<key, Get(doc[meta_tag], "content", None)>>}
       ELSE {}

\* one iteration of the metadata loop: the pairs it adds to the dict
MetaEntry(doc, key, meta_name, old) ==
    LET meta_tag == FindAttr(doc, 0, "meta", "name", meta_name, old)
    IN IF meta_tag # 0 /\ Truthy(Get(doc[meta_tag], "content", None))
       THEN {<<key, Get(doc[meta_tag], "content", None)>>}
       ELSE {<<key, None>>}

\* the metadata dict after the loop over meta_fields
MetadataPass(doc, old) ==
    LET pairs == UNION {MetaEntry(doc, MetaFields[k][1], MetaFields[k][2], old) :
                          k \in 1..Len(MetaFields)}
    IN [key \in {p[1] : p \in pairs} |-> (CHOOSE p \in pairs : p[1] = key)[2]]

\* mutant of SectionElements: find_all('section', recursive=False)
SectionElementsTopLevel(doc) ==
    SelectSeq(FindAll(doc, 0, "section"), LAMBDA j : doc[j].depth = 1)

\* soup.find_all('section')
SectionElements(doc) == FindAll(doc, 0, "section")

\* mutant of ResolveName: f"Section {len(sections)}"
ResolveNameFromZero(doc, s, count) ==
    LET section_name == Get(doc[s], "data-section-name", None)
        header == Find(doc, s, "header")
    IN IF Truthy(section_name) THEN section_name
       ELSE IF header # 0 THEN Strip(TextOf(doc, header))
       ELSE SectionN(count)

\* section name: attribute, else header text, else "Section N";
\* count = len(sections) when the section is reached
ResolveName(doc, s, count) ==
    LET section_name == Get(doc[s], "data-section-name", None)
        header == Find(doc, s, "header")
    IN IF Truthy(section_name) THEN section_name
       ELSE IF header # 0 THEN Strip(TextOf(doc, header))
       ELSE SectionN(count + 1)

\* label of a textarea question
TextareaLabel(doc, s, t, section_name, im, old) ==
    LET textarea_id == Get(doc[t], "id", <<>>)
        label_element == FindAttr(doc, s, "label", "for", textarea_id, old)
    IN IF label_element # 0 /\ Strip(TextOf(doc, label_element)) # <<>>
       THEN Strip(TextOf(doc, label_element))
       ELSE IF im = "request" \/ section_name # <<>> THEN section_name
       ELSE Title(Replace(Replace(textarea_id, "Text", <<>>), "_", <<" ">>))

TextareaQuestion(doc, s, t, question_id, section_name, im, old) ==
    [id         |-> question_id,
     label      |-> TextareaLabel(doc, s, t, section_name, im, old),
     answer     |-> Strip(TextOf(doc, t)),
     field_type |-> Get(doc[t], "data-field-type", <<"TEXTAREA">>),
     element_id |-> Get(doc[t], "id", <<>>)]

\* the loop over textareas: question_id starts at 0 and counts every textarea
TextareaQuestions(doc, s, textareas, section_name, im, old) ==
    [k \in 1..Len(textareas) |->
        TextareaQuestion(doc, s, textareas[k], k - 1, section_name, im, old)]

\* mutant of LabelStep: question_id += 1 outside the if
LabelStepCountsSkipped(doc, label, st) ==
    IF Strip(TextOf(doc, label)) # <<>>
    THEN << Append(st[1], [id         |-> st[2],
                           label      |-> Strip(TextOf(doc, label)),
                           answer     |-> <<>>,
                           field_type |-> <<"LABEL">>]),
            st[2] + 1 >>
    ELSE <<st[1], st[2] + 1>>

\* the loop over labels: state is <<questions, question_id>>
LabelStep(doc, label, st) ==
    IF Strip(TextOf(doc, label)) # <<>>
    THEN << Append(st[1], [id         |-> st[2],
                           label      |-> Strip(TextOf(doc, label)),
                           answer     |-> <<>>,
                           field_type |-> <<"LABEL">>]),
            st[2] + 1 >>
    ELSE st

LabelQuestions(doc, labels) ==
    LET F[k \in 0..Len(labels)] ==
            IF k = 0 THEN << <<>>, 0 >> ELSE LabelStep(doc, labels[k], F[k - 1])
    IN F[Len(labels)][1]

\* mutant of Fallback: no placeholder
FallbackNever(questions, section_name) == questions

\* strategy 3: the placeholder question of a section without form elements
Fallback(questions, section_name) ==
    IF questions = <<>>
    THEN << [id         |-> 0,
             label      |-> section_name,
             answer     |-> <<>>,
             field_type |-> <<"SECTION">>] >>
    ELSE questions

\* mutant of Strategy: the label loop runs after the textarea loop (if, not else)
StrategyMerged(doc, s, section_name, im, old) ==
    TextareaQuestions(doc, s, FindAll(doc, s, "textarea"), section_name, im, old)
        \o LabelQuestions(doc, FindAll(doc, s, "label"))

\* strategies 1 and 2: textareas if the section has any, else labels
Strategy(doc, s, section_name, im, old) ==
    LET textareas == FindAll(doc, s, "textarea")
    IN IF textareas # <<>>
       THEN TextareaQuestions(doc, s, textareas, section_name, im, old)
       ELSE LabelQuestions(doc, FindAll(doc, s, "label"))

\* src/converter.py: one question per label, no field_type, no fallback
RootQuestions(doc, s) ==
    LET labels == FindAll(doc, s, "label")
    IN [k \in 1..Len(labels) |->
           [id |-> k - 1, label |-> Strip(TextOf(doc, labels[k])), answer |-> <<>>]]

FieldPass(doc, s, section_name, im, old) ==
    IF im = "root" THEN RootQuestions(doc, s)
    ELSE Fallback(Strategy(doc, s, section_name, im, old), section_name)

\* one iteration of the section loop: sections.append(section_data)
SectionStep(doc, s, sections, im, old) ==
    LET section_name == ResolveName(doc, s, Len(sections))
    IN Append(sections, [name      |-> section_name,
                         questions |-> FieldPass(doc, s, section_name, im, old)])

SectionPass(doc, im, old) ==
    LET elems == SectionElements(doc)
        F[k \in 0..Len(elems)] ==
            IF k = 0 THEN <<>> ELSE SectionStep(doc, elems[k], F[k - 1], im, old)
    IN F[Len(elems)]

TitlePass(doc) ==
    LET title_tag == Find(doc, 0, "title")
    IN IF title_tag # 0 THEN Strip(TextOf(doc, title_tag))
       ELSE <<"Untitled", " ", "Document">>

\* the passes over the parsed soup
Extract(doc, im, old) ==
    [title    |-> TitlePass(doc),
     metadata |-> MetadataPass(doc, old),
     sections |-> SectionPass(doc, im, old)]

Return(v) == [kind |-> "return", value |-> v]

Raise(e) == [kind |-> "raise", exc |-> e]

\* BeautifulSoup(html_content, 'html.parser') followed by the passes
ParseAndExtract(inp, im, old) ==
    IF inp.rejected THEN Raise("ParserRejectedMarkup")
    ELSE Return(Extract(inp.nodes, im, old))

\* not html_content or len(html_content.strip()) == 0
IsBlank(inp) == ~inp.rejected /\ inp.nodes = <<>> /\ Strip(inp.text) = <<>>

\* fastapi_converter.convert_html_to_json(html_content)
ConvertRequest(inp, old) == ParseAndExtract(inp, "request", old)

\* open(file_path, 'r', encoding='utf-8').read(), and on UnicodeDecodeError
\* the same with encoding='latin-1', which decodes every byte string;
\* file.content is the text under the encoding that ends up being used
ReadText(file) == IF file.utf8 THEN file.content ELSE file.content

\* converter.convert_html_to_json(filename), im \in {"root", "file"}
ConvertFile(file, im, old) ==
    IF ~file.exists THEN Raise("FileNotFoundError")
    ELSE IF ~file.readable THEN Raise("OSError")
    ELSE IF IsBlank(ReadText(file)) THEN Raise("ValueError")
    ELSE ParseAndExtract(ReadText(file), im, old)

-----------------------------------------------------------------------------
(* The inputs the model draws from *)

TextareaId == <<"lung", "_", "Text">>

Kind(tag, attrs, text) == [tag |-> tag, attrs |-> attrs, text |-> text]

SectionKinds ==
    {Kind("section", a, <<>>) :
        a \in {{}, {<<"data-section-name", <<>>>>},
               {<<"data-section-name", <<"Findings">>>>}}}

HeaderKinds == {Kind("header", {}, t) : t \in {<<" ", "Lungs", " ">>, <<" ">>}}

LabelKinds ==
    {Kind("label", {}, <<"Note", " ">>),
     Kind("label", {<<"for", TextareaId>>}, <<" ">>),
     Kind("label", {<<"for", TextareaId>>}, <<" ", "Lobe">>)}

TextareaKinds ==
    {Kind("textarea", {}, <<>>),
     Kind("textarea", {<<"id", TextareaId>>}, <<" ", "clear", " ">>),
     Kind("textarea", {<<"id", TextareaId>>, <<"data-field-type", <<"LABEL">>>>},
          <<"dense">>),
     Kind("textarea", {<<"id", TextareaId>>, <<"data-field-type", <<"CHECKBOX">>>>},
          <<"dense">>)}

BodyKinds == SectionKinds \cup HeaderKinds \cup LabelKinds \cup TextareaKinds

MetaNames ==
    {MetaFields[k][2] : k \in 1..Len(MetaFields)} \cup {<<"viewport">>}

MetaContent == <<"Dr.", " ", "X">>

HeadKinds ==
    {Kind("meta", {<<"name", n>>, <<"content", c>>}, <<>>) :
        n \in MetaNames, c \in {<<>>, MetaContent}}
    \cup {Kind("meta", {<<"name", <<"dcterms.identifier">>>>}, <<>>),
          Kind("title", {}, <<" ", "Chest", " ", "CT", " ">>)}

NodeAt(k, d) == [tag |-> k.tag, depth |-> d, attrs |-> k.attrs, text |-> k.text]

\* elements that hold other elements in the documents drawn
Containers == {"section", "label"}

\* form elements lie inside a section; only containers have children
ValidNext(b, k, d) ==
    IF b = <<>> THEN d = 1 /\ k.tag = "section"
    ELSE /\ d <= b[Len(b)].depth + 1
         /\ k.tag # "section" => d >= 2
         /\ d = b[Len(b)].depth + 1 => b[Len(b)].tag \in Containers

Extend(S) ==
    UNION {UNION {{Append(b, NodeAt(k, d)) :
                      d \in {e \in 1..(Len(b) + 1) : ValidNext(b, k, e)}} :
                  k \in BodyKinds} :
           b \in S}

RECURSIVE BodiesOfLen(_)
BodiesOfLen(n) == IF n = 0 THEN {<<>>} ELSE Extend(BodiesOfLen(n - 1))

Bodies == UNION {BodiesOfLen(n) : n \in 0..MaxBody}

RECURSIVE HeadsOfLen(_)
HeadsOfLen(n) ==
    IF n = 0 THEN {<<>>}
    ELSE {Append(h, NodeAt(k, 1)) : h \in HeadsOfLen(n - 1), k \in HeadKinds}

Heads == UNION {HeadsOfLen(n) : n \in 0..MaxHead}

\* a head alone, a body alone, or one head element before one section
Docs ==
    Heads \cup Bodies \cup {h \o b : h \in HeadsOfLen(1), b \in BodiesOfLen(1)}

Html(text, nodes, rejected) == [text |-> text, nodes |-> nodes, rejected |-> rejected]

\* empty text, whitespace, text without elements, markup the parser rejects
OddInputs ==
    {Html(<<>>, <<>>, FALSE), Html(<<" ", " ">>, <<>>, FALSE),
     Html(<<" ", "plain">>, <<>>, FALSE), Html(<<"<![">>, <<>>, TRUE)}

Inputs == OddInputs \cup {Html(<<>>, d, FALSE) : d \in Docs \ {<<>>}}

File(exists, readable, utf8, content) ==
    [exists |-> exists, readable |-> readable, utf8 |-> utf8, content |-> content]

Idle == [kind |-> "idle"]

-----------------------------------------------------------------------------
(* Extraction: calls of convert_html_to_json *)

BatchIdle ==
    /\ dir = <<>> /\ driver = "none" /\ bpc = "idle" /\ idx = 0
    /\ successful_conversions = 0 /\ failed_conversions = 0
    /\ written = {} /\ attempted = <<>>

RequestIdle == upload = Idle /\ response = Idle

\* find() is handed the empty string only for a textarea without an id: the
\* matching rule of the installed library shows in no other document
AsksForEmpty(inp) ==
    \E k \in 1..Len(inp.nodes) :
        inp.nodes[k].tag = "textarea" /\ ~HasAttr(inp.nodes[k], "id")

InitExtract ==
    /\ input \in Inputs /\ impl \in {"file", "request"}
    /\ legacy \in (IF AsksForEmpty(input) THEN BOOLEAN ELSE {FALSE})
    /\ outcome = Idle
    /\ BatchIdle /\ RequestIdle

batchVars == <<dir, driver, bpc, idx, successful_conversions,
               failed_conversions, written, attempted>>

requestVars == <<upload, response>>

\* fastapi_converter.convert_html_to_json(input)
CallConvertRequest ==
    /\ impl = "request" /\ outcome = Idle
    /\ outcome' = ConvertRequest(input, legacy)
    /\ UNCHANGED <<input, impl, legacy, batchVars, requestVars>>

\* converter.convert_html_to_json(filename) on a readable file holding input
CallConvertFile ==
    /\ impl = "file" /\ outcome = Idle
    /\ outcome' = ConvertFile(File(TRUE, TRUE, TRUE, input), "file", legacy)
    /\ UNCHANGED <<input, impl, legacy, batchVars, requestVars>>

NextExtract == CallConvertRequest \/ CallConvertFile

SpecExtract == InitExtract /\ [][NextExtract]_vars

-----------------------------------------------------------------------------
(* The batch driver: convert_all_html_files *)

\* a report with one section holding one textarea
GoodHtml ==
    Html(<<>>,
         <<NodeAt(Kind("section", {<<"data-section-name", <<"Findings">>>>}, <<>>), 1),
           NodeAt(Kind("textarea", {<<"id", TextareaId>>}, <<" ", "clear", " ">>), 2)>>,
         FALSE)

\* a file of the directory: well-formed (either encoding), a dangling link,
\* one that cannot be opened, an empty one, one the parser rejects
FileStates ==
    {File(TRUE, TRUE, TRUE, GoodHtml), File(TRUE, TRUE, FALSE, GoodHtml),
     File(FALSE, FALSE, TRUE, Html(<<>>, <<>>, FALSE)),
     File(TRUE, FALSE, TRUE, Html(<<>>, <<>>, FALSE)),
     File(TRUE, TRUE, TRUE, Html(<<" ">>, <<>>, FALSE)),
     File(TRUE, TRUE, TRUE, Html(<<"<![">>, <<>>, TRUE))}

\* what lies at the output path before the run: nothing, a file, a directory
OutStates == {"none", "file", "dir"}

HtmlName(i) ==
    IF i % 3 = 0 THEN <<ToString(i), ".html", ".html">> ELSE <<ToString(i), ".html">>

Entry(name, file, out) == [name |-> name, file |-> file, out |-> out]

\* the entries the i-th position of os.listdir() may hold
EntriesAt(i) ==
    {Entry(HtmlName(i), f, o) : f \in FileStates, o \in OutStates}
    \cup {Entry(<<ToString(i), ".txt">>, File(TRUE, TRUE, TRUE, Html(<<"notes">>, <<>>, FALSE)), "none")}

RECURSIVE DirsOfLen(_)
DirsOfLen(n) ==
    IF n = 0 THEN {<<>>}
    ELSE {Append(d, e) : d \in DirsOfLen(n - 1), e \in EntriesAt(n)}

Dirs == UNION {DirsOfLen(n) : n \in 0..MaxFiles}

\* [f for f in os.listdir(current_dir) if f.endswith('.html')]
HtmlFiles(d) == SelectSeq(d, LAMBDA e : EndsWith(e.name, ".html"))

\* html_filename.replace('.html', '.json')
OutputName(name) == Replace(name, ".html", <<".json">>)

\* analyze_html_structure(filename): the error dict for a missing file, else
\* the statistics of the parsed file
Analyze(file) ==
    IF ~file.exists THEN Return("error")
    ELSE IF ~file.readable THEN Raise("OSError")
    ELSE IF ReadText(file).rejected THEN Raise("ParserRejectedMarkup")
    ELSE Return("analysis")

\* src/converter.py save_json_output(data, output_filename): the files after it
SaveRoot(data, name, out, files) ==
    IF out = "dir" THEN Raise("OSError")
    ELSE Return({w \in files : w[1] # name} \cup {<<name, data>>})

\* radreportconverter/converter.py save_json_output(data, filename): returns
\* the error dict when the path does not exist, else analyses the file there
\* and then reads output_filename, a local that was never bound
SaveRadreport(data, name, out, files) ==
    IF out = "none" THEN Return(files)
    ELSE IF out = "dir" THEN Raise("OSError")
    ELSE Raise("UnboundLocalError")

SaveJsonOutput(drv, data, name, out, files) ==
    IF drv = "root" THEN SaveRoot(data, name, out, files)
    ELSE SaveRadreport(data, name, out, files)

InitBatch ==
    /\ input = Html(<<>>, <<>>, FALSE) /\ impl = "none" /\ legacy = FALSE
    /\ outcome = Idle
    /\ dir \in Dirs /\ driver \in {"root", "radreport"}
    /\ bpc = "list" /\ idx = 0
    /\ successful_conversions = 0 /\ failed_conversions = 0
    /\ written = {} /\ attempted = <<>>
    /\ RequestIdle

extractVars == <<input, impl, legacy, outcome>>

\* lines 216-225: list the directory; return when it holds no .html file
ListFiles ==
    /\ bpc = "list"
    /\ bpc' = IF HtmlFiles(dir) = <<>> THEN "done"
              ELSE IF driver = "radreport" THEN "analyze" ELSE "convert"
    /\ idx' = IF HtmlFiles(dir) = <<>> THEN 0 ELSE 1
    /\ UNCHANGED <<dir, driver, successful_conversions, failed_conversions,
                   written, attempted, extractVars, requestVars>>

\* lines 230-237 of radreportconverter/converter.py: one iteration of the
\* analysis loop, which runs outside any try
AnalyzeOne ==
    /\ bpc = "analyze"
    /\ LET r == Analyze(HtmlFiles(dir)[idx].file)
       IN IF r.kind = "raise" THEN bpc' = "aborted" /\ idx' = idx
          ELSE IF idx < Len(HtmlFiles(dir)) THEN bpc' = "analyze" /\ idx' = idx + 1
          ELSE bpc' = "convert" /\ idx' = 1
    /\ UNCHANGED <<dir, driver, successful_conversions, failed_conversions,
                   written, attempted, extractVars, requestVars>>

\* one iteration of the conversion loop: convert, save, count
ConvertOne ==
    /\ bpc = "convert"
    /\ LET e == HtmlFiles(dir)[idx]
           result == ConvertFile(e.file, IF driver = "root" THEN "root" ELSE "file", legacy)
           saved == IF result.kind = "return"
                    THEN SaveJsonOutput(driver, result.value, OutputName(e.name), e.out, written)
                    ELSE result
           ok == saved.kind = "return"
       IN /\ written' = IF ok THEN saved.value ELSE written
          /\ successful_conversions' = successful_conversions + (IF ok THEN 1 ELSE 0)
          /\ failed_conversions' = failed_conversions + (IF ok THEN 0 ELSE 1)
          /\ attempted' = Append(attempted, [name |-> e.name, ok |-> ok])
    /\ IF idx < Len(HtmlFiles(dir)) THEN bpc' = "convert" /\ idx' = idx + 1
       ELSE bpc' = "summary" /\ idx' = idx
    /\ UNCHANGED <<dir, driver, extractVars, requestVars>>

\* the final summary
Summary ==
    /\ bpc = "summary"
    /\ bpc' = "done"
    /\ UNCHANGED <<dir, driver, idx, successful_conversions, failed_conversions,
                   written, attempted, extractVars, requestVars>>

NextBatch == ListFiles \/ AnalyzeOne \/ ConvertOne \/ Summary

SpecBatch == InitBatch /\ [][NextBatch]_vars

-----------------------------------------------------------------------------
(* The request handler: POST /convert *)

Upload(filename, utf8, content) ==
    [filename |-> filename, utf8 |-> utf8, content |-> content]

UploadNames == {<<"report", ".html">>, <<"report", ".txt">>, <<"report", ".html", ".bak">>}

UploadContents ==
    OddInputs \cup {Html(<<>>, d, FALSE) : d \in BodiesOfLen(1) \cup BodiesOfLen(2)}

Uploads == {Upload(n, u, c) : n \in UploadNames, u \in BOOLEAN, c \in UploadContents}

Success(filename, data) ==
    [code |-> 200, status |-> "success", filename |-> filename, data |-> data]

\* raise HTTPException(status_code, detail)
HttpError(code, detail) == [code |-> code, detail |-> detail]

\* the call of convert_html_to_json the handler makes, if it makes one:
\* line 115 after a UTF-8 decode, line 126 after the Latin-1 decode
HandlerCall(up, old) ==
    IF ~EndsWith(up.filename, ".html") THEN Idle
    ELSE ConvertRequest(up.content, old)

\* convert_html_file(file)
ConvertHtmlFile(up, old) ==
    LET r == HandlerCall(up, old)
    IN IF ~EndsWith(up.filename, ".html")
       THEN HttpError(400, "File must be an HTML file")
       ELSE IF r.kind = "return" THEN Success(up.filename, r.value)
       ELSE IF up.utf8 THEN HttpError(500, "Error processing file")
       ELSE HttpError(400, "Error decoding file")

InitRequest ==
    /\ input = Html(<<>>, <<>>, FALSE) /\ impl = "none"
    /\ upload \in Uploads
    /\ legacy \in (IF AsksForEmpty(upload.content) THEN BOOLEAN ELSE {FALSE})
    /\ outcome = Idle /\ response = Idle
    /\ BatchIdle

PostConvert ==
    /\ response = Idle
    /\ outcome' = HandlerCall(upload, legacy)
    /\ response' = ConvertHtmlFile(upload, legacy)
    /\ impl' = "request" /\ input' = upload.content
    /\ UNCHANGED <<legacy, upload, batchVars>>

NextRequest == PostConvert

SpecRequest == InitRequest /\ [][NextRequest]_vars

-----------------------------------------------------------------------------
(* Properties of the extraction, stated on the input document itself *)

Returned == outcome.kind = "return"

Nodes == input.nodes

\* the section elements of the input, nested ones included, in document order
NumSections == Cardinality({k \in 1..Len(Nodes) : Nodes[k].tag = "section"})

NthSection(i) ==
    CHOOSE k \in 1..Len(Nodes) :
        /\ Nodes[k].tag = "section"
        /\ Cardinality({j \in 1..k : Nodes[j].tag = "section"}) = i

\* the elements with the given tag inside element s
Inside(s, tag) == {j \in Descendants(Nodes, s) : Nodes[j].tag = tag}

\* the n-th element, in document order, of a set of positions
NthOf(S, n) == CHOOSE j \in S : Cardinality({m \in S : m <= j}) = n

TextLabels(s) == {j \in Inside(s, "label") : Strip(TextOf(Nodes, j)) # <<>>}

Placeholder(name) ==
    [id |-> 0, label |-> name, answer |-> <<>>, field_type |-> <<"SECTION">>]

FromTextarea(q) == "element_id" \in DOMAIN q

\* C1: every emitted section has at least one question, and a section with no
\* textarea and no label with non-empty trimmed text has exactly the one
\* SECTION placeholder question, labelled with the section's name.
C1_AtLeastOneQuestion ==
    Returned =>
        \A i \in 1..Len(outcome.value.sections) :
            LET sec == outcome.value.sections[i]
            IN /\ Len(sec.questions) >= 1
               /\ (i <= NumSections
                   /\ Inside(NthSection(i), "textarea") = {}
                   /\ TextLabels(NthSection(i)) = {})
                  => sec.questions = <<Placeholder(sec.name)>>

\* a section whose only form element is a label without text got the placeholder
C1_Witness ==
    /\ Returned
    /\ \E i \in 1..NumSections :
          /\ Inside(NthSection(i), "textarea") = {}
          /\ Inside(NthSection(i), "label") # {}
          /\ TextLabels(NthSection(i)) = {}
          /\ outcome.value.sections[i].questions =
                <<Placeholder(outcome.value.sections[i].name)>>

\* the questions of section i are one per textarea of the section, in order
OnePerTextarea(i) ==
    LET s == NthSection(i)
        qs == outcome.value.sections[i].questions
    IN /\ Len(qs) = Cardinality(Inside(s, "textarea"))
       /\ \A n \in 1..Len(qs) :
             LET t == NthOf(Inside(s, "textarea"), n)
             IN /\ FromTextarea(qs[n])
                /\ qs[n].element_id = Get(Nodes[t], "id", <<>>)
                /\ qs[n].answer = Strip(TextOf(Nodes, t))

\* C2 as stated: a section with textareas has one question per textarea and
\* no question of type LABEL or SECTION.
C2_NoLabelOrSectionType ==
    Returned =>
        \A i \in 1..NumSections :
            Inside(NthSection(i), "textarea") # {} =>
                /\ OnePerTextarea(i)
                /\ \A n \in 1..Len(outcome.value.sections[i].questions) :
                      outcome.value.sections[i].questions[n].field_type
                          \notin {<<"LABEL">>, <<"SECTION">>}

\* C2 (amended): a section with textareas has exactly one question per
\* textarea, in document order, each typed by the textarea's data-field-type
\* attribute (TEXTAREA without it); no question comes from a label element or
\* from the section placeholder, however many labels the section holds.
C2_TextareaStrategyOnly ==
    Returned =>
        \A i \in 1..NumSections :
            Inside(NthSection(i), "textarea") # {} =>
                /\ OnePerTextarea(i)
                /\ \A n \in 1..Len(outcome.value.sections[i].questions) :
                      outcome.value.sections[i].questions[n].field_type =
                          Get(Nodes[NthOf(Inside(NthSection(i), "textarea"), n)],
                              "data-field-type", <<"TEXTAREA">>)

\* a section with a textarea and a label with text gave a single question
C2_Witness ==
    /\ Returned
    /\ \E i \in 1..NumSections :
          /\ Cardinality(Inside(NthSection(i), "textarea")) = 1
          /\ TextLabels(NthSection(i)) # {}
          /\ Len(outcome.value.sections[i].questions) = 1
          /\ FromTextarea(outcome.value.sections[i].questions[1])

\* C3: empty or whitespace-only input is rejected with an invalid-input error
\* and no Document is produced.
C3_BlankRejected ==
    (outcome # Idle /\ IsBlank(input)) =>
        outcome.kind = "raise" /\ outcome.exc = "ValueError"

\* C7: the Document has one section per section element of the input, nested
\* ones included, the i-th from the i-th element in document order.
C7_OneSectionPerElement ==
    Returned =>
        /\ Len(outcome.value.sections) = NumSections
        /\ \A i \in 1..NumSections :
              LET s == NthSection(i)
                  sec == outcome.value.sections[i]
              IN /\ Truthy(Get(Nodes[s], "data-section-name", None))
                    => sec.name = Get(Nodes[s], "data-section-name", None)
                 /\ Inside(s, "textarea") # {} => OnePerTextarea(i)
                 /\ Inside(s, "textarea") = {}
                    => /\ \A n \in 1..Len(sec.questions) : ~FromTextarea(sec.questions[n])
                       /\ Len(sec.questions) = IF TextLabels(s) = {} THEN 1
                                               ELSE Cardinality(TextLabels(s))

\* a section nested in another one, with no field of its own, is emitted
C7_Witness ==
    /\ Returned
    /\ NumSections >= 2
    /\ Len(outcome.value.sections) = NumSections
    /\ \E i \in 2..NumSections :
          /\ NthSection(i) \in Descendants(Nodes, NthSection(i - 1))
          /\ Inside(NthSection(i), "textarea") = {}
          /\ TextLabels(NthSection(i)) = {}

\* the first header element inside section s, 0 when there is none
FirstHeader(s) ==
    IF Inside(s, "header") = {} THEN 0 ELSE NthOf(Inside(s, "header"), 1)

\* C8 as stated: the name is the data-section-name attribute if present, else
\* the text of the section's header element, else "Section k".
C8_NameOrderIfPresent ==
    Returned =>
        \A i \in 1..NumSections :
            LET s == NthSection(i)
            IN outcome.value.sections[i].name =
                  IF HasAttr(Nodes[s], "data-section-name")
                  THEN Get(Nodes[s], "data-section-name", None)
                  ELSE IF FirstHeader(s) # 0 THEN Strip(TextOf(Nodes, FirstHeader(s)))
                  ELSE SectionN(i)

\* C8 (amended): the name is the data-section-name attribute if present and
\* not empty, else the trimmed text of the section's header element, else
\* "Section k" with k the section's 1-based position.
C8_NameOrder ==
    Returned =>
        \A i \in 1..NumSections :
            LET s == NthSection(i)
            IN outcome.value.sections[i].name =
                  IF HasAttr(Nodes[s], "data-section-name")
                     /\ Get(Nodes[s], "data-section-name", None) # <<>>
                  THEN Get(Nodes[s], "data-section-name", None)
                  ELSE IF FirstHeader(s) # 0 THEN Strip(TextOf(Nodes, FirstHeader(s)))
                  ELSE SectionN(i)

\* a second section with an empty attribute and no header is "Section 2",
\* and some section takes its name from its header
C8_Witness ==
    /\ Returned
    /\ NumSections >= 2
    /\ Get(Nodes[NthSection(2)], "data-section-name", None) = <<>>
    /\ FirstHeader(NthSection(2)) = 0
    /\ outcome.value.sections[2].name = SectionN(2)
    /\ FirstHeader(NthSection(1)) # 0
    /\ outcome.value.sections[1].name = <<"Lungs">>

MetaKeys == {"identifier", "language", "publisher", "date", "creator"}

\* the first meta element named dcterms.<key>, 0 when there is none
FirstMeta(key) ==
    LET S == {j \in 1..Len(Nodes) :
                /\ Nodes[j].tag = "meta"
                /\ HasAttr(Nodes[j], "name")
                /\ Get(Nodes[j], "name", None) = <<"dcterms." \o key>>}
    IN IF S = {} THEN 0 ELSE NthOf(S, 1)

\* C9: the metadata has exactly the five keys; each value is the content of
\* the meta element named dcterms.<key> when it exists with non-empty content,
\* and null otherwise.
C9_MetadataKeys ==
    Returned =>
        /\ DOMAIN outcome.value.metadata = MetaKeys
        /\ \A key \in MetaKeys :
              LET m == FirstMeta(key)
              IN outcome.value.metadata[key] =
                    IF m # 0 /\ HasAttr(Nodes[m], "content")
                       /\ Get(Nodes[m], "content", None) # <<>>
                    THEN Get(Nodes[m], "content", None)
                    ELSE None

\* one key has a value, one has a meta element with empty content
C9_Witness ==
    /\ Returned
    /\ \E a, b \in MetaKeys :
          /\ outcome.value.metadata[a] = MetaContent
          /\ FirstMeta(b) # 0
          /\ outcome.value.metadata[b] = None

\* C10: in every section the question ids are 0, 1, ..., m-1 in order; the
\* numbering restarts in each section and skipped labels consume no id.
C10_ContiguousIds ==
    Returned =>
        \A i \in 1..Len(outcome.value.sections) :
            \A n \in 1..Len(outcome.value.sections[i].questions) :
                outcome.value.sections[i].questions[n].id = n - 1

\* a section whose first label has no text and whose second has
C10_Witness ==
    /\ Returned
    /\ \E i \in 1..NumSections :
          LET L == Inside(NthSection(i), "label")
          IN /\ Inside(NthSection(i), "textarea") = {}
             /\ Cardinality(L) >= 2
             /\ NthOf(L, 1) \notin TextLabels(NthSection(i))
             /\ NthOf(L, 2) \in TextLabels(NthSection(i))
             /\ outcome.value.sections[i].questions[1].id = 0

-----------------------------------------------------------------------------
(* Properties of the batch driver and of the request handler *)

\* the input name with its .html extension replaced by .json
JsonNameOf(name) == SubSeq(name, 1, Len(name) - 1) \o <<".json">>

\* C4: every file counted as a successful conversion has had its Document
\* written to the .json file named after it.
C4_SuccessHasOutput ==
    \A n \in 1..Len(attempted) :
        attempted[n].ok => \E w \in written : w[1] = JsonNameOf(attempted[n].name)

\* C5: a failing file never aborts the batch: when convert_all_html_files
\* ends, every enumerated .html file has been attempted, in enumeration
\* order, and the two counters add up to the number of enumerated files.
C5_BatchNeverAborts ==
    bpc \in {"done", "aborted"} =>
        /\ [n \in 1..Len(attempted) |-> attempted[n].name] =
              [n \in 1..Len(HtmlFiles(dir)) |-> HtmlFiles(dir)[n].name]
        /\ successful_conversions + failed_conversions = Len(HtmlFiles(dir))

\* C6: a name not ending in .html gets 400 without the extractor running; an
\* extraction that returns gets the success envelope; an invalid-input error
\* gets 400; any other failure of the extraction gets 500, on the UTF-8 path
\* and on the Latin-1 path alike.
C6_OneEnvelopePerOutcome ==
    response # Idle =>
        /\ ~EndsWith(upload.filename, ".html")
              => response.code = 400 /\ outcome = Idle
        /\ (EndsWith(upload.filename, ".html") /\ outcome.kind = "return")
              => response = Success(upload.filename, outcome.value)
        /\ (EndsWith(upload.filename, ".html") /\ outcome.kind = "raise")
              => response.code = IF outcome.exc = "ValueError" THEN 400 ELSE 500

-----------------------------------------------------------------------------
(* Further properties of the extraction *)

FieldTypes == {<<"TEXTAREA">>, <<"LABEL">>, <<"SECTION">>}

\* C11: every question of every returned Document has a field_type among
\* TEXTAREA, LABEL and SECTION, whatever data-field-type the textareas carry.
C11_FieldTypeEnumerated ==
    Returned =>
        \A i \in 1..Len(outcome.value.sections) :
            \A n \in 1..Len(outcome.value.sections[i].questions) :
                /\ "field_type" \in DOMAIN outcome.value.sections[i].questions[n]
                /\ outcome.value.sections[i].questions[n].field_type \in FieldTypes

\* C12: the file-based and the request-side convert_html_to_json produce
\* structurally equal Documents for the same non-empty HTML text, also in the
\* label of a textarea without matching label in a section named "".
C12_SameExtraction ==
    (Returned /\ impl = "file") => outcome = ConvertRequest(input, legacy)

\* the labels inside section s whose for attribute equals the id of textarea t
LabelsFor(s, t) ==
    {j \in Inside(s, "label") :
        /\ HasAttr(Nodes[j], "for")
        /\ HasAttr(Nodes[t], "id")
        /\ Get(Nodes[j], "for", None) = Get(Nodes[t], "id", None)}

\* C13: a textarea's question is labelled with the trimmed text of the label
\* of its section whose for attribute equals the textarea's id, when there is
\* one and its trimmed text is not empty, and with the section's name in
\* every other case; its answer is the textarea's trimmed text and its
\* element_id the textarea's id.
C13_TextareaLabel ==
    Returned =>
        \A i \in 1..NumSections :
            LET s == NthSection(i)
                sec == outcome.value.sections[i]
            IN \A n \in 1..Cardinality(Inside(s, "textarea")) :
                  LET t == NthOf(Inside(s, "textarea"), n)
                      m == IF LabelsFor(s, t) = {} THEN 0 ELSE NthOf(LabelsFor(s, t), 1)
                  IN /\ n <= Len(sec.questions)
                     /\ sec.questions[n].label =
                           IF m # 0 /\ Strip(TextOf(Nodes, m)) # <<>>
                           THEN Strip(TextOf(Nodes, m))
                           ELSE sec.name
                     /\ sec.questions[n].answer = Strip(TextOf(Nodes, t))
                     /\ sec.questions[n].element_id = Get(Nodes[t], "id", <<>>)

====
